---- MODULE Spec2Model ----
(***************************************************************************)
(* Model of the controller-util reconcile engine                           *)
(* (core.Reconciler.Reconcile) and of its condition helper                 *)
(* (core.conditionHelper, SetStatusCondition, FindStatusCondition).        *)
(*                                                                         *)
(* Two specifications are given over one set of variables:                 *)
(*   SpecCond  the condition helper driven through its own API             *)
(*             (SetCondition / Flush) from bounded initial lists;          *)
(*   Spec      the reconcile cycle: fetch, skip check, dispatch of each    *)
(*             component, metadata patch, status patch, return.            *)
(***************************************************************************)
EXTENDS Integers, Sequences, FiniteSets, TLC

(***************************************************************************)
(* Bounds of the model.                                                    *)
(***************************************************************************)
\* the wall clock read by time.Now() ranges over 1..MaxTime
MaxTime == 3
\* at most MaxSets calls of SetCondition between two flushes (SpecCond)
MaxSets == 2
\* at most MaxFlushes calls of Flush in one run of the helper (SpecCond)
MaxFlushes == 2

(***************************************************************************)
(* metav1.Condition values.                                                *)
(***************************************************************************)
\* metav1.Time{} : IsZero() holds of it
ZeroTime == 0
\* a transition time the caller supplies itself in SetCondition; it lies
\* outside the clock's range, so it is told apart from a reading of the clock
ExplicitTime == MaxTime + 1

CondTypes == {"Ready", "Synced"}
CondStatuses == {"True", "False"}
CondReasons == {"Waiting", "Done"}
CondMessages == {"m1", "m2"}

Cond(type, status, reason, message, gen, ltt) ==
    [Type |-> type, Status |-> status, Reason |-> reason, Message |-> message,
     ObservedGeneration |-> gen, LastTransitionTime |-> ltt]

\* the number of conditions of type t in a condition list
CountType(conditions, t) ==
    Cardinality({i \in 1..Len(conditions) : conditions[i].Type = t})

\* the first condition of type t in a list that holds one
FirstOfType(conditions, t) ==
    conditions[CHOOSE i \in 1..Len(conditions) :
                  /\ conditions[i].Type = t
                  /\ \A j \in 1..(i - 1) : conditions[j].Type # t]

(***************************************************************************)
(* FindStatusCondition: `for _, cond := range conditions` copies each      *)
(* element into the loop variable and `return &cond` returns the address   *)
(* of that copy.  The result is modelled as <<>> for nil and as <<copy>>   *)
(* for a pointer: what the caller holds is the value of the first          *)
(* condition of the type, never a position in the slice.                   *)
(***************************************************************************)
FindStatusCondition(conditions, conditionType) ==
    IF CountType(conditions, conditionType) = 0
    THEN <<>>
    ELSE << FirstOfType(conditions, conditionType) >>

\* lines 90-101 of SetStatusCondition, applied to the condition `existing`
\* points to
UpdateExisting(existing, newCondition, t) ==
    LET statusSet ==
            IF existing.Status # newCondition.Status
            THEN [existing EXCEPT
                    !.Status = newCondition.Status,
                    !.LastTransitionTime =
                        IF newCondition.LastTransitionTime # ZeroTime
                        THEN newCondition.LastTransitionTime
                        ELSE t]
            ELSE existing
    IN [statusSet EXCEPT !.Reason = newCondition.Reason,
                         !.Message = newCondition.Message]

\* changed lines 83-89: the new condition is appended without the search
\* for a condition of its type
SetStatusConditionAppends(conditions, newCondition, t) ==
    << Append(conditions,
              [newCondition EXCEPT !.LastTransitionTime =
                  IF @ = ZeroTime THEN t ELSE @]),
       <<>> >>

(***************************************************************************)
(* SetStatusCondition(conditions, newCondition) with time.Now() = t.       *)
(* The result is <<list, copy>>: the slice after the call, and the value   *)
(* of the copy FindStatusCondition returned after lines 90-101 wrote to    *)
(* it (<<>> when nothing was found).  The writes to `existing` reach the   *)
(* copy only, so the slice is returned as it was.                          *)
(***************************************************************************)
SetStatusCondition(conditions, newCondition, t) ==
    LET existing == FindStatusCondition(conditions, newCondition.Type)
    IN IF existing = <<>>
       THEN << Append(conditions,
                      [newCondition EXCEPT !.LastTransitionTime =
                          IF @ = ZeroTime THEN t ELSE @]),
               <<>> >>
       ELSE << conditions, << UpdateExisting(existing[1], newCondition, t) >> >>

\* conditionHelper.SetCondition: the pending map after the call
SetConditionOp(pend, cond, generation) ==
    LET c == IF cond.ObservedGeneration = 0
             THEN [cond EXCEPT !.ObservedGeneration = generation]
             ELSE cond
    IN [k \in (DOMAIN pend) \cup {c.Type} |-> IF k = c.Type THEN c ELSE pend[k]]

\* all orders in which `for _, cond := range h.pending` may visit the keys
RECURSIVE Orders(_)
Orders(S) ==
    IF S = {} THEN { <<>> }
    ELSE UNION { { <<k>> \o o : o \in Orders(S \ {k}) } : k \in S }

\* the loop of Flush over the pending conditions in the order `order`
RECURSIVE FlushLoop(_, _, _, _)
FlushLoop(conditions, pend, order, t) ==
    IF order = <<>> THEN conditions
    ELSE FlushLoop(SetStatusCondition(conditions, pend[Head(order)], t)[1],
                   pend, Tail(order), t)

\* the empty map h.pending is reset to
EmptyPending == [k \in {} |-> Cond("", "", "", "", 0, 0)]

(***************************************************************************)
(* conditionHelper.Flush: the set of outcomes <<conditions, pending>>.     *)
(* An object that is no ConditionObject returns before the loop and        *)
(* before the reset of h.pending.                                          *)
(***************************************************************************)
FlushOp(isCondObj, conditions, pend, t) ==
    IF ~isCondObj
    THEN { << conditions, pend >> }
    ELSE { << FlushLoop(conditions, pend, order, t), EmptyPending >> :
              order \in Orders(DOMAIN pend) }

(***************************************************************************)
(* The resource (client.Object) as the engine reads and writes it.         *)
(***************************************************************************)
\* core.SkipReconcileAnnotation
SkipReconcileAnnotation == "controller-util.dominodatalab.com/skip-reconcile"

\* annotation maps of the model: the skip annotation absent, or set to a value
NoAnnotations == [k \in {} |-> ""]
Annotated(v) == [k \in {SkipReconcileAnnotation} |-> v]
SkipValues == {"true", "True", "TRUE"}

\* label maps of the model: no label, and the label a component sets on the
\* working copy
NoLabels == [k \in {} |-> ""]
OwnedLabel == [k \in {"app.kubernetes.io/name"} |-> "widget"]

\* a string map with the entries of `over` written over those of `base`
MergeMaps(base, over) ==
    [k \in (DOMAIN base) \cup (DOMAIN over) |->
        IF k \in DOMAIN over THEN over[k] ELSE base[k]]

\* r.apiType.DeepCopyObject(): the empty object of the reconciled type
EmptyObject ==
    [name |-> "", generation |-> 0, deletionTimestamp |-> ZeroTime,
     finalizers |-> <<>>, labels |-> NoLabels, annotations |-> NoAnnotations,
     conditions |-> <<>>]

\* the identity of the one resource the requests are about
ReqName == "res"

\* r.finalizerBaseName as Build sets it: <controller name>.<group>/
FinalizerBaseName == "widget.example.com/"

\* rc.finalizerName = path.Join(r.finalizerBaseName, rc.name); the component
\* names of the model are single clean path elements, for which path.Join
\* is the concatenation
FinalizerName(name) == FinalizerBaseName \o name

\* controllerutil.ContainsFinalizer
ContainsFinalizer(o, finalizer) ==
    \E i \in 1..Len(o.finalizers) : o.finalizers[i] = finalizer

\* controllerutil.AddFinalizer: appended unless it is there already
AddFinalizer(o, finalizer) ==
    IF ContainsFinalizer(o, finalizer) THEN o
    ELSE [o EXCEPT !.finalizers = Append(@, finalizer)]

\* controllerutil.RemoveFinalizer: every occurrence is removed
RemoveFinalizer(o, finalizer) ==
    [o EXCEPT !.finalizers = SelectSeq(@, LAMBDA f : f # finalizer)]

(***************************************************************************)
(* The engine's configuration and the steps of Reconciler.Reconcile.       *)
(***************************************************************************)
\* a registered component: its name, and whether Reconciler.Component found
\* it to implement FinalizerComponent (rc.finalizer != nil)
Comp(name, hasFinalizer) == [name |-> name, finalizer |-> hasFinalizer]

\* the component lists of the model (Build rejects duplicate names)
ComponentLists ==
    { << Comp("a", fa), Comp("b", fb) >> : fa \in BOOLEAN, fb \in BOOLEAN }

\* ctrl.Result
Durations == {0, 1, 2}
\* the results a component returns in the model: an immediate requeue, or a
\* delay, or neither
Results ==
    { [Requeue |-> q, RequeueAfter |-> d] :
         << q, d >> \in { x \in BOOLEAN \X Durations : ~x[1] \/ x[2] = 0 } }
ZeroResult == [Requeue |-> FALSE, RequeueAfter |-> 0]

\* errors returned by Reconcile: nil, the error of Get, the error of a patch,
\* or the aggregate of the component errors (named by component)
NilError == [kind |-> "nil", errs |-> <<>>]
FetchError == [kind |-> "fetch", errs |-> <<>>]
PatchError(kind) == [kind |-> kind, errs |-> <<>>]
\* utilerrors.NewAggregate: nil for an empty list
NewAggregate(errlist) ==
    IF errlist = <<>> THEN NilError ELSE [kind |-> "aggregate", errs |-> errlist]

\* NewReconciler, line 62: the mode a new engine is in
DefaultAbortNotFound == TRUE

\* a changed line 204: the cycle goes on in both modes
ContinuesOnNotFound(abort) == FALSE

\* a changed line 204: the cycle is aborted in both modes
AbortsAlways(abort) == TRUE

\* line 204: on a not-found error of Get the cycle is aborted in this mode
AbortsOnNotFound(abort) == abort

\* changed lines 215-216: the value is compared without regard to case
SkipReconcileAnyCase(annotations) ==
    /\ SkipReconcileAnnotation \in DOMAIN annotations
    /\ annotations[SkipReconcileAnnotation] \in SkipValues

\* lines 215-216: the skip annotation is present with the value "true"
SkipReconcile(annotations) ==
    /\ SkipReconcileAnnotation \in DOMAIN annotations
    /\ annotations[SkipReconcileAnnotation] = "true"

\* changed lines 244-252: a resource marked for deletion is reconciled by
\* the components that have nothing to finalize
CallKindReconcilesDeleted(o, rc) ==
    IF o.deletionTimestamp # ZeroTime /\ rc.finalizer
          /\ ContainsFinalizer(o, FinalizerName(rc.name))
    THEN "Finalize"
    ELSE "Reconcile"

\* lines 244-261: what the loop body invokes on the component
CallKind(o, rc) ==
    IF o.deletionTimestamp = ZeroTime
    THEN "Reconcile"
    ELSE IF rc.finalizer /\ ContainsFinalizer(o, FinalizerName(rc.name))
         THEN "Finalize"
         ELSE "none"

\* changed lines 248-251: the finalizer is registered for every component,
\* finalizer-capable or not
AfterReconcileAnyComponent(o, rc) ==
    AddFinalizer(o, FinalizerName(rc.name))

\* changed lines 248-251: the finalizer is appended without the test for
\* its presence
AfterReconcileAppends(o, rc) ==
    IF rc.finalizer
    THEN [o EXCEPT !.finalizers = Append(@, FinalizerName(rc.name))]
    ELSE o

\* lines 248-251: the finalizer is registered after Reconcile returned
AfterReconcile(o, rc) ==
    IF rc.finalizer /\ ~ContainsFinalizer(o, FinalizerName(rc.name))
    THEN AddFinalizer(o, FinalizerName(rc.name))
    ELSE o

\* changed lines 257-260: the finalizer is kept when Finalize returned an error
AfterFinalizeUnlessError(o, rc, done, err) ==
    IF done /\ ~err THEN RemoveFinalizer(o, FinalizerName(rc.name)) ELSE o

\* changed lines 257-260: the finalizer is kept whatever Finalize reported
AfterFinalizeKeeps(o, rc, done, err) == o

\* lines 257-260: the finalizer is removed when Finalize reported done
AfterFinalize(o, rc, done, err) ==
    IF done THEN RemoveFinalizer(o, FinalizerName(rc.name)) ELSE o

\* changed lines 264-269: the latest non-zero delay replaces the kept one
MergeResultLatest(final, res) ==
    [Requeue |-> (final.Requeue \/ res.Requeue),
     RequeueAfter |->
        IF res.RequeueAfter # 0 THEN res.RequeueAfter ELSE final.RequeueAfter]

\* lines 264-269: the component's result merged into finalRes
MergeResult(final, res) ==
    [Requeue |-> (final.Requeue \/ res.Requeue),
     RequeueAfter |->
        IF res.RequeueAfter # 0
           /\ (final.RequeueAfter = 0 \/ final.RequeueAfter > res.RequeueAfter)
        THEN res.RequeueAfter
        ELSE final.RequeueAfter]

\* lines 270-273: the error is recorded
RecordError(errlist, rc, err) ==
    IF err THEN Append(errlist, rc.name) ELSE errlist

\* a changed loop: it is left at the first component error
NextComponentStopOnError(i, err, n) == IF err THEN n + 1 ELSE i + 1

\* line 238: the loop goes on to the next component whatever the error was
NextComponent(i, err, n) == i + 1

\* the conditions a component may set during one call, through
\* conditionHelper.Set (observed generation and transition time left zero)
CompSets ==
    { <<>>,
      << Cond("Ready", "False", "Waiting", "m1", 0, ZeroTime) >>,
      << Cond("Ready", "True", "Done", "m1", 0, ZeroTime) >> }

\* the labels a component may write to the working copy during one call
CompLabels == { NoLabels, OwnedLabel }

\* the pending map after a component's calls of SetCondition
RECURSIVE SetAll(_, _, _)
SetAll(pend, sets, generation) ==
    IF sets = <<>> THEN pend
    ELSE SetAll(SetConditionOp(pend, Head(sets), generation), Tail(sets), generation)

\* changed lines 295 and 298: the merged result is returned with the error
PatchFailureKeepsResult(final, errlist, kind) ==
    [valid |-> TRUE, res |-> final, err |-> PatchError(kind)]

\* changed line 276: the patches are issued in both modes
PersistsAlways(abort) == TRUE

\* line 276: the patches are issued in the tolerant mode only
Persists(abort) == ~abort

\* lines 276-299: the return of Reconcile after a failed patch
PatchFailure(final, errlist, kind) ==
    [valid |-> TRUE, res |-> ZeroResult, err |-> PatchError(kind)]

\* lines 303-304: the return of Reconcile at the end of the cycle
Completion(final, errlist) ==
    [valid |-> TRUE, res |-> final, err |-> NewAggregate(errlist)]

(***************************************************************************)
(* The resource store (client.Client): Get, the JSON merge patch of the    *)
(* metadata and the merge patch of the status subresource.                 *)
(***************************************************************************)
\* the JSON merge patch of a string map: the keys to write with their
\* values, and the keys to remove
MapDiff(clean, current) ==
    [set |-> [k \in { x \in DOMAIN current :
                         x \notin DOMAIN clean \/ clean[x] # current[x] } |->
                 current[k]],
     del |-> (DOMAIN clean) \ (DOMAIN current)]

\* a string map after a merge patch of it was applied
ApplyMapDiff(m, d) ==
    [k \in ((DOMAIN m) \ d.del) \cup (DOMAIN d.set) |->
        IF k \in DOMAIN d.set THEN d.set[k] ELSE m[k]]

\* client.MergeFrom(cleanMeta) against currentMeta: the maps are patched key
\* by key, a list is sent whole when it differs (<<>> stands for "not in the
\* patch")
MetaPatch(clean, current) ==
    [finalizers |-> IF current.finalizers # clean.finalizers
                    THEN << current.finalizers >> ELSE <<>>,
     labels |-> MapDiff(clean.labels, current.labels),
     annotations |-> MapDiff(clean.annotations, current.annotations)]

\* client.MergeFrom(cleanObj) against ctx.Object, as the status subresource
\* reads it: only the status (the condition list) is taken from the patch
StatusPatch(clean, current) ==
    [conditions |-> IF current.conditions # clean.conditions
                    THEN << current.conditions >> ELSE <<>>]

\* a patch that changes nothing
IsEmptyPatch(patch) ==
    \A f \in DOMAIN patch :
        IF f \in {"labels", "annotations"}
        THEN DOMAIN patch[f].set = {} /\ patch[f].del = {}
        ELSE patch[f] = <<>>

\* the store after the metadata patch was applied; a resource marked for
\* deletion goes away with its last finalizer
ApplyMetaPatch(st, patch) ==
    LET o1 == IF patch.finalizers # <<>>
              THEN [st.obj EXCEPT !.finalizers = patch.finalizers[1]]
              ELSE st.obj
        o2 == [o1 EXCEPT !.labels = ApplyMapDiff(@, patch.labels),
                         !.annotations = ApplyMapDiff(@, patch.annotations)]
    IN IF o2.deletionTimestamp # ZeroTime /\ o2.finalizers = <<>>
       THEN [exists |-> FALSE, obj |-> EmptyObject]
       ELSE [exists |-> TRUE, obj |-> o2]

\* the store after the status patch was applied
ApplyStatusPatch(st, patch) ==
    IF patch.conditions # <<>>
    THEN [st EXCEPT !.obj.conditions = patch.conditions[1]]
    ELSE st

(***************************************************************************)
(* State.                                                                  *)
(***************************************************************************)
VARIABLES
    abortNotFound,  \* r.abortNotFound
    components,     \* r.components
    condObj,        \* whether r.apiType implements ConditionObject
    store,          \* the resource in the store: [exists, obj]
    pc,             \* where Reconcile stands: "idle", "dispatch", "patchStatus", "done"
    obj,            \* ctx.Object, the working copy
    cleanObj,       \* the snapshot taken after the fetch
    pending,        \* ctx.Conditions.pending
    rcIdx,          \* the position of the loop over r.components
    finalRes,       \* finalRes
    errs,           \* errs
    ret,            \* what the last call of Reconcile returned
    now,            \* the last reading of time.Now()
    got,            \* history: how the Get of this cycle ended
    calls,          \* history: the component calls of this cycle
    patches,        \* history: the patch calls of this cycle
    lastFlush,      \* history: the last call of Flush, until the next Set
    setLog,         \* history: the SetCondition calls per type since the last Flush
    flushes         \* history: the number of Flush calls (SpecCond)

vars == << abortNotFound, components, condObj, store, pc, obj, cleanObj,
           pending, rcIdx, finalRes, errs, ret, now, got, calls, patches,
           lastFlush, setLog, flushes >>

config == << abortNotFound, components, condObj >>
cycleVars == << pc, cleanObj, rcIdx, finalRes, errs, ret, got, calls, patches >>
helperHistory == << lastFlush, setLog, flushes >>

NoReturn == [valid |-> FALSE, res |-> ZeroResult, err |-> NilError]
NoSets == [t \in CondTypes |-> <<>>]
NoFlush == [valid |-> FALSE, before |-> <<>>, pending |-> EmptyPending,
            sets |-> NoSets, at |-> ZeroTime]

\* the time of the conditions the store holds at the start: the first
\* time that is not the zero time
StoredTime == ZeroTime + 1

\* a stored resource
Stored(deleted, fins, annotations, conditions) ==
    [name |-> ReqName, generation |-> 1,
     deletionTimestamp |-> IF deleted THEN StoredTime ELSE ZeroTime,
     finalizers |-> fins, labels |-> NoLabels, annotations |-> annotations,
     conditions |-> conditions]

StoredReady == Cond("Ready", "True", "Done", "m1", 1, StoredTime)
StoredSynced == Cond("Synced", "False", "Waiting", "m2", 1, StoredTime)

\* the finalizer lists the stored resource starts with
InitialFinalizers ==
    { <<>>, << FinalizerName("a") >>, << FinalizerName("a"), FinalizerName("b") >> }

\* the stores the cycles of Spec start from; the store holds no resource
\* that is marked for deletion and has no finalizer left
InitialStores ==
    { [exists |-> FALSE, obj |-> EmptyObject] }
    \cup { [exists |-> TRUE, obj |-> Stored(x[1], x[2], NoAnnotations, c)] :
              x \in { y \in BOOLEAN \X InitialFinalizers : ~y[1] \/ y[2] # <<>> },
              c \in { <<>>, << StoredReady >> } }
    \cup { [exists |-> TRUE, obj |-> Stored(d, << FinalizerName("a") >>, Annotated(v), <<>>)] :
              d \in BOOLEAN, v \in SkipValues }

Init ==
    /\ abortNotFound = DefaultAbortNotFound
    /\ components \in ComponentLists
    /\ condObj \in BOOLEAN
    /\ store \in InitialStores
    \* a type that has no condition list stores no conditions
    /\ ~condObj => store.obj.conditions = <<>>
    /\ pc = "idle"
    /\ obj = EmptyObject
    /\ cleanObj = EmptyObject
    /\ pending = EmptyPending
    /\ rcIdx = 1
    /\ finalRes = ZeroResult
    /\ errs = <<>>
    /\ ret = NoReturn
    /\ now = StoredTime
    /\ got = "none"
    /\ calls = <<>>
    /\ patches = <<>>
    /\ lastFlush = NoFlush
    /\ setLog = NoSets
    /\ flushes = 0

\* Reconciler.ReconcileNotFound, called on the builder before the first cycle
ReconcileNotFound ==
    /\ pc = "idle"
    /\ abortNotFound
    /\ abortNotFound' = FALSE
    /\ UNCHANGED << components, condObj, store, obj, pending, now, cycleVars,
                    helperHistory >>

(***************************************************************************)
(* Reconcile, lines 192-219: the fetch, the snapshot and the skip check.   *)
(***************************************************************************)
\* the state a new call of Reconcile starts its history from
StartCycle ==
    /\ pc \in {"idle", "done"}
    /\ pending' = EmptyPending
    /\ rcIdx' = 1
    /\ finalRes' = ZeroResult
    /\ errs' = <<>>
    /\ calls' = <<>>
    /\ patches' = <<>>
    /\ UNCHANGED << config, store, now, helperHistory >>

\* Get fails with an error that is not not-found
FetchFails ==
    /\ StartCycle
    /\ got' = "error"
    /\ obj' = EmptyObject
    /\ cleanObj' = cleanObj
    /\ ret' = [valid |-> TRUE, res |-> ZeroResult, err |-> FetchError]
    /\ pc' = "done"

\* Get returns not-found and the cycle is aborted
FetchNotFoundAbort ==
    /\ StartCycle
    /\ ~store.exists
    /\ AbortsOnNotFound(abortNotFound)
    /\ got' = "notfound"
    /\ obj' = EmptyObject
    /\ cleanObj' = cleanObj
    /\ ret' = [valid |-> TRUE, res |-> ZeroResult, err |-> NilError]
    /\ pc' = "done"

\* Get succeeds, or returns not-found in the tolerant mode; then the snapshot
\* and the skip check
Fetch ==
    /\ StartCycle
    /\ store.exists \/ ~AbortsOnNotFound(abortNotFound)
    /\ got' = IF store.exists THEN "found" ELSE "notfound"
    /\ obj' = IF store.exists THEN store.obj
              ELSE [EmptyObject EXCEPT !.name = ReqName]
    /\ cleanObj' = obj'
    /\ IF SkipReconcile(obj'.annotations)
       THEN /\ ret' = [valid |-> TRUE, res |-> ZeroResult, err |-> NilError]
            /\ pc' = "done"
       ELSE /\ ret' = NoReturn
            /\ pc' = "dispatch"

(***************************************************************************)
(* Reconcile, lines 238-274: one turn of the loop over the components.     *)
(* The component's call returns res, done and err and has called           *)
(* SetCondition for the conditions of `sets`; time passes during the call. *)
(***************************************************************************)
Dispatch ==
    /\ pc = "dispatch"
    /\ rcIdx <= Len(components)
    /\ LET rc == components[rcIdx]
           kind == CallKind(obj, rc)
       IN \E res \in Results, done \in BOOLEAN, err \in BOOLEAN, sets \in CompSets,
             lab \in CompLabels :
            /\ kind = "none" =>
                  (res = ZeroResult /\ ~done /\ ~err /\ sets = <<>> /\ lab = NoLabels)
            /\ kind = "Reconcile" => ~done
            \* in the model a label is written by calls of Reconcile that do
            \* nothing else
            /\ lab # NoLabels =>
                  (kind = "Reconcile" /\ res = ZeroResult /\ ~err /\ sets = <<>>)
            /\ now' = IF now < MaxTime THEN now + 1 ELSE now
            /\ LET pend1 == SetAll(pending, sets, obj.generation)
                   obj0 == [obj EXCEPT !.labels = MergeMaps(@, lab)]
                   obj1 == CASE kind = "Reconcile" -> AfterReconcile(obj0, rc)
                             [] kind = "Finalize" -> AfterFinalize(obj0, rc, done, err)
                             [] OTHER -> obj0
               IN \E out \in FlushOp(condObj, obj1.conditions, pend1, now') :
                    /\ obj' = [obj1 EXCEPT !.conditions = out[1]]
                    /\ pending' = out[2]
                    /\ calls' = Append(calls,
                          [comp |-> rcIdx, kind |-> kind, res |-> res, done |-> done,
                           err |-> err, sets |-> sets,
                           finsBefore |-> obj.finalizers,
                           finsAfter |-> obj1.finalizers,
                           condsBefore |-> obj.conditions,
                           condsAfter |-> out[1],
                           pendingBefore |-> pending,
                           pendingAfter |-> out[2], at |-> now'])
            /\ finalRes' = MergeResult(finalRes, res)
            /\ errs' = RecordError(errs, rc, err)
            /\ rcIdx' = NextComponent(rcIdx, err, Len(components))
    /\ UNCHANGED << config, store, pc, cleanObj, ret, got, patches, helperHistory >>

(***************************************************************************)
(* Reconcile, lines 276-304: persistence and the return.                   *)
(***************************************************************************)
\* the abort-on-not-found mode skips the patches
Complete ==
    /\ pc = "dispatch"
    /\ rcIdx > Len(components)
    /\ ~Persists(abortNotFound)
    /\ ret' = Completion(finalRes, errs)
    /\ pc' = "done"
    /\ UNCHANGED << config, store, obj, cleanObj, pending, rcIdx, finalRes, errs,
                    now, got, calls, patches, helperHistory >>

\* r.client.Patch of the metadata; it fails when the store does not hold the
\* resource, and may fail otherwise
PatchMetadata ==
    /\ pc = "dispatch"
    /\ rcIdx > Len(components)
    /\ Persists(abortNotFound)
    /\ LET patch == MetaPatch(cleanObj, obj)
       IN \E ok \in BOOLEAN :
            /\ ok => store.exists
            /\ patches' = Append(patches,
                  [kind |-> "metadata", ok |-> ok, empty |-> IsEmptyPatch(patch)])
            /\ IF ok
               THEN /\ store' = ApplyMetaPatch(store, patch)
                    /\ ret' = ret
                    /\ pc' = "patchStatus"
               ELSE /\ store' = store
                    /\ ret' = PatchFailure(finalRes, errs, "metadata")
                    /\ pc' = "done"
    /\ UNCHANGED << config, obj, cleanObj, pending, rcIdx, finalRes, errs,
                    now, got, calls, helperHistory >>

\* r.client.Status().Patch; then the return of the cycle
PatchStatus ==
    /\ pc = "patchStatus"
    /\ LET patch == StatusPatch(cleanObj, obj)
       IN \E ok \in BOOLEAN :
            /\ ok => store.exists
            /\ patches' = Append(patches,
                  [kind |-> "status", ok |-> ok, empty |-> IsEmptyPatch(patch)])
            /\ IF ok
               THEN /\ store' = ApplyStatusPatch(store, patch)
                    /\ ret' = Completion(finalRes, errs)
               ELSE /\ store' = store
                    /\ ret' = PatchFailure(finalRes, errs, "status")
            /\ pc' = "done"
    /\ UNCHANGED << config, obj, cleanObj, pending, rcIdx, finalRes, errs,
                    now, got, calls, helperHistory >>

Next ==
    \/ ReconcileNotFound
    \/ FetchFails
    \/ FetchNotFoundAbort
    \/ Fetch
    \/ Dispatch
    \/ Complete
    \/ PatchMetadata
    \/ PatchStatus

Spec == Init /\ [][Next]_vars

(***************************************************************************)
(* The condition helper driven through its API: SetCondition and Flush on  *)
(* a resource whose condition list holds at most one condition per type.   *)
(***************************************************************************)
InitialConditionLists ==
    { <<>>,
      << StoredReady >>,
      << Cond("Ready", "False", "Waiting", "m2", 1, StoredTime) >>,
      << StoredSynced, StoredReady >> }

\* the arguments of SetCondition in the model: against the stored Ready
\* condition they keep or change the status, the reason and the message, and
\* leave the observed generation and the transition time zero or supply them
CondInputs ==
    { Cond("Ready", "True", "Done", "m1", 0, ZeroTime),
      Cond("Ready", "True", "Waiting", "m2", 0, ZeroTime),
      Cond("Ready", "True", "Done", "m2", 0, ExplicitTime),
      Cond("Ready", "False", "Waiting", "m1", 0, ZeroTime),
      Cond("Ready", "False", "Done", "m2", 2, ExplicitTime),
      Cond("Ready", "False", "Done", "m1", 0, ExplicitTime),
      Cond("Synced", "True", "Done", "m1", 0, ZeroTime),
      Cond("Synced", "False", "Waiting", "m2", 2, ExplicitTime) }

InitCond ==
    /\ abortNotFound = DefaultAbortNotFound
    /\ components = <<>>
    /\ condObj \in BOOLEAN
    /\ store = [exists |-> FALSE, obj |-> EmptyObject]
    /\ pc = "helper"
    /\ obj \in { Stored(FALSE, <<>>, NoAnnotations, c) : c \in InitialConditionLists }
    /\ ~condObj => obj.conditions = <<>>
    /\ cleanObj = obj
    /\ pending = EmptyPending
    /\ rcIdx = 1
    /\ finalRes = ZeroResult
    /\ errs = <<>>
    /\ ret = NoReturn
    /\ now = StoredTime
    /\ got = "found"
    /\ calls = <<>>
    /\ patches = <<>>
    /\ lastFlush = NoFlush
    /\ setLog = NoSets
    /\ flushes = 0

\* the number of SetCondition calls since the last Flush
RECURSIVE SumSets(_, _)
SumSets(n, S) ==
    IF S = {} THEN 0
    ELSE LET t == CHOOSE x \in S : TRUE IN Len(n[t]) + SumSets(n, S \ {t})

\* conditionHelper.SetCondition(cond)
HelperSet ==
    /\ pc = "helper"
    /\ SumSets(setLog, CondTypes) < MaxSets
    /\ \E cond \in CondInputs :
         /\ pending' = SetConditionOp(pending, cond, obj.generation)
         /\ setLog' = [setLog EXCEPT ![cond.Type] = Append(@, cond)]
    /\ lastFlush' = NoFlush
    /\ UNCHANGED << config, store, obj, now, cycleVars, flushes >>

\* conditionHelper.Flush()
HelperFlush ==
    /\ pc = "helper"
    /\ flushes < MaxFlushes
    /\ \E out \in FlushOp(condObj, obj.conditions, pending, now) :
         /\ obj' = [obj EXCEPT !.conditions = out[1]]
         /\ pending' = out[2]
    /\ lastFlush' = [valid |-> TRUE, before |-> obj.conditions,
                     pending |-> pending, sets |-> setLog, at |-> now]
    /\ setLog' = NoSets
    /\ flushes' = flushes + 1
    /\ UNCHANGED << config, store, now, cycleVars >>

\* time passes between two calls
Tick ==
    /\ pc = "helper"
    /\ now < MaxTime
    /\ now' = now + 1
    /\ UNCHANGED << config, store, obj, pending, cycleVars, helperHistory >>

NextCond ==
    \/ HelperSet
    \/ HelperFlush
    \/ Tick

SpecCond == InitCond /\ [][NextCond]_vars

(***************************************************************************)
(* Properties of the condition helper (checked under SpecCond).            *)
(***************************************************************************)
\* the types SetCondition was called for before the last Flush
FlushedTypes == { t \in CondTypes : lastFlush.sets[t] # <<>> }

\* the last SetCondition call for type t before the last Flush
LastSet(t) == lastFlush.sets[t][Len(lastFlush.sets[t])]

\* the last Flush ran on a resource that has a condition list
Flushed == lastFlush.valid /\ condObj

\* C1: after N >= 1 calls of Set/SetCondition for a type T and one Flush, the
\* condition list holds exactly one condition of type T, and its status,
\* reason and message are those of the last Set call, whatever the list
\* held before (a condition of type T included).
C1_SetFlushYieldsLastSet ==
    Flushed =>
        \A t \in FlushedTypes :
            /\ CountType(obj.conditions, t) = 1
            /\ LET c == FirstOfType(obj.conditions, t)
               IN /\ c.Status = LastSet(t).Status
                  /\ c.Reason = LastSet(t).Reason
                  /\ c.Message = LastSet(t).Message

\* C1, the part the code keeps: a type the list did not hold before the Flush
\* is in it exactly once afterwards, with the values of the last Set call.
C1_NewTypeYieldsLastSet ==
    Flushed =>
        \A t \in FlushedTypes :
            CountType(lastFlush.before, t) = 0 =>
                /\ CountType(obj.conditions, t) = 1
                /\ LET c == FirstOfType(obj.conditions, t)
                   IN /\ c.Status = LastSet(t).Status
                      /\ c.Reason = LastSet(t).Reason
                      /\ c.Message = LastSet(t).Message

\* the types the last Flush merged into a list that already held them
MergedTypes == { t \in FlushedTypes : CountType(lastFlush.before, t) > 0 }

\* C2: when Flush merges a pending condition into a list that holds a
\* condition of its type: with equal status the stored last-transition-time
\* is unchanged; with a different status the stored status becomes the
\* pending one and the stored last-transition-time becomes the pending
\* condition's transition time if that is non-zero, else the current time.
C2_MergeStatusAndTransitionTime ==
    Flushed =>
        \A t \in MergedTypes :
            LET old == FirstOfType(lastFlush.before, t)
                new == FirstOfType(obj.conditions, t)
                p == LastSet(t)
            IN /\ p.Status = old.Status =>
                    new.LastTransitionTime = old.LastTransitionTime
               /\ p.Status # old.Status =>
                    /\ new.Status = p.Status
                    /\ new.LastTransitionTime =
                          IF p.LastTransitionTime # ZeroTime
                          THEN p.LastTransitionTime
                          ELSE lastFlush.at

\* C3: when Flush merges a pending condition into a list that holds a
\* condition of its type, the stored reason and message are the pending ones
\* afterwards, whether or not the status changed.
C3_MergeOverwritesReasonAndMessage ==
    Flushed =>
        \A t \in MergedTypes :
            LET new == FirstOfType(obj.conditions, t)
            IN /\ new.Reason = LastSet(t).Reason
               /\ new.Message = LastSet(t).Message

(***************************************************************************)
(* Properties of the reconcile cycle (checked under Spec).                 *)
(***************************************************************************)
SetWaiting == << Cond("Ready", "False", "Waiting", "m1", 0, ZeroTime) >>
SetDone == << Cond("Ready", "True", "Done", "m1", 0, ZeroTime) >>

\* C4: in a cycle with two components where the first sets Ready to False
\* with reason Waiting and the second sets Ready to True with reason Done,
\* the working copy ends with exactly one Ready condition, of status True and
\* reason Done, whose transition time is the time of the second flush.
C4_TwoComponentsReady ==
    ( /\ condObj
      /\ Len(calls) = 2
      /\ calls[1].kind = "Reconcile" /\ calls[1].sets = SetWaiting
      /\ calls[2].kind = "Reconcile" /\ calls[2].sets = SetDone )
    => /\ CountType(obj.conditions, "Ready") = 1
       /\ LET c == FirstOfType(obj.conditions, "Ready")
          IN /\ c.Status = "True"
             /\ c.Reason = "Done"
             /\ c.LastTransitionTime = calls[2].at

\* membership in a list
InSeq(seq, x) == \E i \in 1..Len(seq) : seq[i] = x

\* the resource of this cycle is marked for deletion
Deleted == obj.deletionTimestamp # ZeroTime

\* the resource o carries the skip annotation with exactly the value v
AnnotationIs(o, v) ==
    /\ SkipReconcileAnnotation \in DOMAIN o.annotations
    /\ o.annotations[SkipReconcileAnnotation] = v

\* the cycle got past the fetch and the skip check
ReachedDispatch ==
    \/ got = "found" /\ ~AnnotationIs(cleanObj, "true")
    \/ got = "notfound" /\ ~abortNotFound

\* the loop over the components of this cycle is over
LoopEnded ==
    \/ pc = "dispatch" /\ rcIdx > Len(components)
    \/ pc = "patchStatus"
    \/ pc = "done" /\ ReachedDispatch

\* the call i of this cycle is the Finalize of a finalizer-capable component
\* whose finalizer was present when it was dispatched
FinalizeCase(i) ==
    /\ Deleted
    /\ components[calls[i].comp].finalizer
    /\ InSeq(calls[i].finsBefore, FinalizerName(components[calls[i].comp].name))

\* the finalizer of call i's component is in the working copy after the call
FinalizerKept(i) ==
    InSeq(calls[i].finsAfter, FinalizerName(components[calls[i].comp].name))

\* C5 (as amended): on a resource marked for deletion, for every
\* finalizer-capable component whose finalizer is present at dispatch,
\* Finalize is called and the finalizer is absent after the dispatch if and
\* only if Finalize returned done=true, with or without an error.
C5_FinalizerRemovedIffDone ==
    \A i \in 1..Len(calls) :
        FinalizeCase(i) =>
            /\ calls[i].kind = "Finalize"
            /\ ~FinalizerKept(i) <=> calls[i].done

\* C5 (as claimed): ... and the finalizer is still present whenever Finalize
\* returned done=false or returned an error.
C5_FinalizerKeptOnError ==
    \A i \in 1..Len(calls) :
        FinalizeCase(i) =>
            /\ ~FinalizerKept(i) <=> calls[i].done
            /\ (~calls[i].done \/ calls[i].err) => FinalizerKept(i)

\* C5 witness: one cycle finalizes two components; the first returns
\* done=false with an error and keeps its finalizer, the second returns
\* done=true with an error and loses it.
C5_Witness ==
    /\ Len(calls) = 2
    /\ FinalizeCase(1) /\ ~calls[1].done /\ calls[1].err /\ FinalizerKept(1)
    /\ FinalizeCase(2) /\ calls[2].done /\ calls[2].err /\ ~FinalizerKept(2)

\* what the loop body is to invoke for call i, from the state it ran in
ExpectedKind(i) ==
    IF ~Deleted THEN "Reconcile"
    ELSE IF FinalizeCase(i) THEN "Finalize" ELSE "none"

\* C6: in a cycle that reaches dispatch every registered component is
\* dispatched, in order, whatever errors earlier components returned: the
\* loop stands at the component after the last call, and when it is over
\* there is one call per component.
C6_AllComponentsDispatched ==
    /\ \A i \in 1..Len(calls) :
          calls[i].comp = i /\ calls[i].kind = ExpectedKind(i)
    /\ pc = "dispatch" => rcIdx = Len(calls) + 1
    /\ LoopEnded => Len(calls) = Len(components)

\* C6 witness: the first component returned an error and the second was
\* reconciled after it.
C6_Witness ==
    /\ LoopEnded
    /\ Len(calls) = 2
    /\ calls[1].err
    /\ calls[2].kind = "Reconcile"

\* the non-zero delays the components of this cycle asked for
Delays == { calls[i].res.RequeueAfter : i \in 1..Len(calls) } \ {0}
MinOf(S) == CHOOSE m \in S : \A x \in S : m <= x

\* C7: a cycle that ends without a fetch or persistence error returns as
\* RequeueAfter the minimum of the non-zero delays of its components (zero
\* when there is none) and as Requeue the OR of their Requeue flags.
C7_RequeueAggregation ==
    (pc = "done" /\ ret.err.kind \in {"nil", "aggregate"}) =>
        /\ ret.res.RequeueAfter = IF Delays = {} THEN 0 ELSE MinOf(Delays)
        /\ ret.res.Requeue <=> \E i \in 1..Len(calls) : calls[i].res.Requeue

\* C7 witness: the first component asked for the shorter delay.
C7_Witness ==
    /\ pc = "done"
    /\ ret.err.kind \in {"nil", "aggregate"}
    /\ Len(calls) = 2
    /\ calls[1].res.RequeueAfter = 1
    /\ calls[2].res.RequeueAfter = 2
    /\ ret.res.RequeueAfter = 1

\* the return of a cycle that did nothing
EmptyReturn == [valid |-> TRUE, res |-> ZeroResult, err |-> NilError]

\* C8: when Get returns not-found in the abort-on-not-found mode (the mode
\* NewReconciler sets), the cycle returns an empty result and no error,
\* dispatches no component and issues no patch.
C8_NotFoundAborts ==
    (pc = "done" /\ got = "notfound" /\ abortNotFound = DefaultAbortNotFound) =>
        /\ ret = EmptyReturn
        /\ calls = <<>>
        /\ patches = <<>>

C8_Witness ==
    /\ pc = "done"
    /\ got = "notfound"
    /\ abortNotFound = DefaultAbortNotFound
    /\ ~store.exists

\* C9: a fetched resource that carries the skip annotation with exactly the
\* value "true" ends the cycle with no component dispatched, no patch and an
\* empty return, in both modes; with any other value, or without the
\* annotation, the cycle is not skipped and every component is dispatched.
C9_SkipOnlyOnExactTrue ==
    got = "found" =>
        IF AnnotationIs(cleanObj, "true")
        THEN /\ pc = "done"
             /\ ret = EmptyReturn
             /\ calls = <<>>
             /\ patches = <<>>
        ELSE /\ pc = "done" => Len(calls) = Len(components)
             /\ pc = "done" => \A i \in 1..Len(calls) : calls[i].kind = ExpectedKind(i)

\* C9 witness: a skipped cycle of an engine in the tolerant mode.
C9_Witness ==
    /\ got = "found"
    /\ AnnotationIs(cleanObj, "true")
    /\ ~abortNotFound
    /\ pc = "done"

\* a patch of the given kind was issued in this cycle and failed
FailedPatch(kind) ==
    \E i \in 1..Len(patches) : patches[i].kind = kind /\ ~patches[i].ok

\* C10: in the tolerant mode a failed metadata patch is followed by no status
\* patch, and a cycle with a failed patch returns that persistence error
\* alone with an empty result: no component error, no requeue flag, no delay.
C10_PatchFailureSupersedes ==
    ~abortNotFound =>
        /\ FailedPatch("metadata") =>
              \A i \in 1..Len(patches) : patches[i].kind # "status"
        /\ \A k \in {"metadata", "status"} :
              (pc = "done" /\ FailedPatch(k)) =>
                  ret = [valid |-> TRUE, res |-> ZeroResult,
                         err |-> [kind |-> k, errs |-> <<>>]]

\* C10 witness: the metadata patch failed in a cycle whose components
\* returned an error and asked for a requeue.
C10_Witness ==
    /\ ~abortNotFound
    /\ pc = "done"
    /\ FailedPatch("metadata")
    /\ errs # <<>>
    /\ finalRes # ZeroResult

\* C11: in the tolerant mode a patch is issued only where something changed:
\* the metadata patch only when labels, annotations or finalizers differ from
\* the snapshot, the status patch only when the status differs; a cycle whose
\* components change nothing issues no patch.
C11_PatchOnlyWhenChanged ==
    ~abortNotFound =>
        /\ \A i \in 1..Len(patches) : ~patches[i].empty
        /\ (pc = "done" /\ obj = cleanObj) => patches = <<>>

\* C11, the part the code keeps: a patch that succeeded with an empty
\* difference left the store as it was (checked on every step).
C11_EmptyPatchChangesNothing ==
    [][ (Len(patches') > Len(patches) /\ patches'[Len(patches')].empty)
            => store' = store ]_vars

(***************************************************************************)
(* Tolerant cycles on a stored resource that another client of the store   *)
(* writes to between the Get (line 197) and the metadata patch (line 294). *)
(***************************************************************************)
\* what the other client adds: a finalizer, a label and an annotation of
\* its own
ExternalFinalizer == "other.example.com/protect"
ExternalLabel == [k \in {"team"} |-> "storage"]
ExternalAnnotation == [k \in {"note"} |-> "keep"]
ExternalEntries == {"finalizer", "label", "annotation"}

\* the stored resource after the other client added its entry
ExternalAdd(o, what) ==
    CASE what = "finalizer" -> AddFinalizer(o, ExternalFinalizer)
      [] what = "label" -> [o EXCEPT !.labels = MergeMaps(@, ExternalLabel)]
      [] OTHER -> [o EXCEPT !.annotations = MergeMaps(@, ExternalAnnotation)]

\* the other client writes while the cycle stands between its Get and its
\* metadata patch; the store takes no new finalizer for a resource that is
\* marked for deletion
ExternalWrite ==
    /\ pc = "dispatch"
    /\ store.exists
    /\ \E what \in ExternalEntries :
         /\ what = "finalizer" => store.obj.deletionTimestamp = ZeroTime
         /\ store' = [store EXCEPT !.obj = ExternalAdd(@, what)]
         /\ store' # store
    /\ UNCHANGED << config, obj, pending, now, cycleVars, helperHistory >>

\* the engine after ReconcileNotFound, for a type without a condition list,
\* and a stored resource
InitExt ==
    /\ abortNotFound = FALSE
    /\ components \in ComponentLists
    /\ condObj = FALSE
    /\ store \in { [exists |-> TRUE, obj |-> Stored(x[1], x[2], NoAnnotations, <<>>)] :
                      x \in { <<FALSE, <<>> >>, <<FALSE, << FinalizerName("a") >> >>,
                               <<TRUE, << FinalizerName("a"), FinalizerName("b") >> >> } }
    /\ pc = "idle"
    /\ obj = EmptyObject
    /\ cleanObj = EmptyObject
    /\ pending = EmptyPending
    /\ rcIdx = 1
    /\ finalRes = ZeroResult
    /\ errs = <<>>
    /\ ret = NoReturn
    /\ now = StoredTime
    /\ got = "none"
    /\ calls = <<>>
    /\ patches = <<>>
    /\ lastFlush = NoFlush
    /\ setLog = NoSets
    /\ flushes = 0

\* a turn of the loop whose component returns an empty result and no error
\* and sets no condition
DispatchQuiet ==
    /\ Dispatch
    /\ finalRes' = ZeroResult
    /\ errs' = <<>>
    /\ pending' = EmptyPending

NextExt ==
    \/ Fetch
    \/ DispatchQuiet
    \/ ExternalWrite
    \/ PatchMetadata
    \/ PatchStatus

SpecExt == InitExt /\ [][NextExt]_vars

\* the step of a metadata patch that the store applied
MetadataPatchApplied ==
    /\ pc = "dispatch"
    /\ pc' = "patchStatus"
    /\ store.exists

\* the entries of the other client that the store holds and the snapshot of
\* the cycle does not
ExternalFinalizerAdded ==
    /\ ContainsFinalizer(store.obj, ExternalFinalizer)
    /\ ~ContainsFinalizer(cleanObj, ExternalFinalizer)
ExternalLabelAdded ==
    /\ "team" \in DOMAIN store.obj.labels
    /\ "team" \notin DOMAIN cleanObj.labels
ExternalAnnotationAdded ==
    /\ "note" \in DOMAIN store.obj.annotations
    /\ "note" \notin DOMAIN cleanObj.annotations

\* C12: in the tolerant mode, an entry (finalizer, label or annotation) that
\* another writer added to the stored resource after the cycle's Get is
\* still in the stored resource after the cycle's metadata patch was
\* applied, also in a cycle in which the engine adds or removes a finalizer
C12_ExternalEntriesSurvivePatch ==
    [][ (MetadataPatchApplied /\ store'.exists) =>
            /\ ExternalFinalizerAdded => ContainsFinalizer(store'.obj, ExternalFinalizer)
            /\ ExternalLabelAdded => "team" \in DOMAIN store'.obj.labels
            /\ ExternalAnnotationAdded => "note" \in DOMAIN store'.obj.annotations ]_vars

\* C12, the part the code keeps: the labels and annotations of the other
\* writer survive every applied metadata patch, and its finalizer survives
\* the patches of cycles that leave the finalizer list as it was fetched
C12_ExternalMapsSurvivePatch ==
    [][ (MetadataPatchApplied /\ store'.exists) =>
            /\ (ExternalFinalizerAdded /\ obj.finalizers = cleanObj.finalizers)
                    => ContainsFinalizer(store'.obj, ExternalFinalizer)
            /\ ExternalLabelAdded => "team" \in DOMAIN store'.obj.labels
            /\ ExternalAnnotationAdded => "note" \in DOMAIN store'.obj.annotations ]_vars

\* an external finalizer is in the store while the engine's working copy has
\* a finalizer list that differs from the snapshot
C12_Witness ==
    /\ pc = "dispatch"
    /\ rcIdx > Len(components)
    /\ store.exists
    /\ ExternalFinalizerAdded
    /\ ExternalLabelAdded
    /\ obj.finalizers # cleanObj.finalizers

\* no registered component has the finalizer capability
NoFinalizerComponents ==
    \A i \in 1..Len(components) : ~components[i].finalizer

\* the cycle holds a working copy: it is in its loop, at its patches, or
\* over after a fetch that gave it one
HoldsWorkingCopy ==
    \/ pc \in {"dispatch", "patchStatus"}
    \/ pc = "done" /\ got = "found"
    \/ pc = "done" /\ got = "notfound" /\ ~abortNotFound

\* C13: when no registered component has the finalizer capability, the
\* working copy's finalizer list is the fetched one throughout the cycle and
\* at its end, for resources marked for deletion and not, whatever the
\* components return; no call changes it.
C13_NoCapabilityKeepsFinalizers ==
    (NoFinalizerComponents /\ HoldsWorkingCopy) =>
        /\ obj.finalizers = cleanObj.finalizers
        /\ \A i \in 1..Len(calls) : calls[i].finsAfter = calls[i].finsBefore

\* C13 witness: a cycle of two components without the capability is over
\* on a resource that has a finalizer; one of them returned an error and a
\* requeue delay.
C13_Witness ==
    /\ NoFinalizerComponents
    /\ pc = "done"
    /\ Len(calls) = 2
    /\ cleanObj.finalizers # <<>>
    /\ calls[1].kind = "Reconcile" /\ calls[1].err
    /\ calls[2].res.RequeueAfter > 0

\* a condition list with at most one condition per type
AtMostOnePerType(conditions) ==
    \A t \in CondTypes : CountType(conditions, t) <= 1

\* C14: from a list with at most one condition per type, every step of
\* Set/SetCondition and Flush leaves at most one condition per type in the
\* list, and a condition that is in the list before and after the step has
\* a different last-transition-time only if the step is a Flush that also
\* changed its status.
C14_OnePerTypeAndTransitionTime ==
    [][ /\ AtMostOnePerType(obj.conditions)
        /\ AtMostOnePerType(obj'.conditions)
        /\ \A t \in CondTypes :
              (CountType(obj.conditions, t) = 1 /\ CountType(obj'.conditions, t) = 1) =>
                  LET before == FirstOfType(obj.conditions, t)
                      after == FirstOfType(obj'.conditions, t)
                  IN before.LastTransitionTime # after.LastTransitionTime =>
                        /\ before.Status # after.Status
                        /\ flushes' = flushes + 1 ]_vars

\* C14 witness: the second Flush of a run has merged a condition whose
\* status differs from the stored one of its type, and a condition of a
\* type the list did not hold.
C14_Witness ==
    /\ Flushed
    /\ flushes = 2
    /\ \E t \in MergedTypes :
          FirstOfType(lastFlush.before, t).Status # LastSet(t).Status
    /\ \E t \in FlushedTypes : CountType(lastFlush.before, t) = 0
    /\ Len(obj.conditions) = 2

\* a step that starts a cycle with a successful Get
FetchedStep ==
    /\ pc \in {"idle", "done"}
    /\ pc' \in {"dispatch", "done"}
    /\ got' = "found"

\* C15: in the abort-on-not-found mode (the default) no step of a cycle
\* issues a patch and none changes the stored resource, also when the
\* resource was found and the components changed the working copy; every
\* fetch returns the stored resource as it was, without the finalizers the
\* previous cycles added to their working copies.
C15_NoPersistenceInAbortMode ==
    [][ abortNotFound =>
            /\ patches' = <<>>
            /\ store' = store
            /\ FetchedStep => (obj' = store.obj /\ cleanObj' = store.obj) ]_vars

\* C15 witness: a default-mode cycle on a found resource is over; its
\* working copy has a finalizer and a condition the stored resource lacks.
C15_Witness ==
    /\ abortNotFound
    /\ pc = "done"
    /\ got = "found"
    /\ Len(calls) = Len(components)
    /\ \E i \in 1..Len(obj.finalizers) : ~InSeq(store.obj.finalizers, obj.finalizers[i])
    /\ Len(obj.conditions) > Len(store.obj.conditions)
    /\ ret.valid

\* the number of times the finalizer name is in the finalizer list
CountFinalizer(fins, finalizer) ==
    Cardinality({ i \in 1..Len(fins) : fins[i] = finalizer })

\* C16: in a cycle on a resource not marked for deletion, after the dispatch
\* of a finalizer-capable component its finalizer name is in the working
\* copy's finalizer list exactly once, whether or not Reconcile returned an
\* error and whether or not the name was there before; the dispatch of a
\* component without the capability leaves the finalizer list as it was.
C16_FinalizerPresentOnce ==
    ~Deleted =>
        \A i \in 1..Len(calls) :
            LET rc == components[calls[i].comp]
            IN IF rc.finalizer
               THEN CountFinalizer(calls[i].finsAfter, FinalizerName(rc.name)) = 1
               ELSE calls[i].finsAfter = calls[i].finsBefore

\* C16 witness: a cycle on a resource not marked for deletion reconciled two
\* finalizer-capable components with an error each; the finalizer of the
\* first was there before the call, that of the second was not.
C16_Witness ==
    /\ ~Deleted
    /\ Len(calls) = 2
    /\ components[1].finalizer /\ components[2].finalizer
    /\ calls[1].kind = "Reconcile" /\ calls[1].err
    /\ calls[2].kind = "Reconcile" /\ calls[2].err
    /\ InSeq(calls[1].finsBefore, FinalizerName(components[1].name))
    /\ ~InSeq(calls[2].finsBefore, FinalizerName(components[2].name))
    /\ InSeq(calls[2].finsAfter, FinalizerName(components[2].name))

\* every entry of the list `after` is an entry of the list `before`
NoneAdded(before, after) ==
    \A i \in 1..Len(after) : InSeq(before, after[i])

\* C17: in a cycle on a resource marked for deletion no component's
\* Reconcile is invoked; a component without the finalizer capability, or
\* whose finalizer name is not in the finalizer list when it is dispatched,
\* has neither Reconcile nor Finalize invoked and contributes no error, no
\* requeue flag and no delay; no call adds a finalizer.
C17_DeletedCycleOnlyFinalizes ==
    Deleted =>
        /\ \A i \in 1..Len(calls) :
              /\ calls[i].kind # "Reconcile"
              /\ NoneAdded(calls[i].finsBefore, calls[i].finsAfter)
              /\ ~FinalizeCase(i) =>
                    /\ calls[i].kind = "none"
                    /\ calls[i].res = ZeroResult
                    /\ ~calls[i].err
                    /\ calls[i].finsAfter = calls[i].finsBefore
        /\ (\A i \in 1..Len(calls) : ~FinalizeCase(i)) =>
              (finalRes = ZeroResult /\ errs = <<>>)
        /\ HoldsWorkingCopy => NoneAdded(cleanObj.finalizers, obj.finalizers)

\* C17 witness: a cycle on a resource marked for deletion is over; the first
\* component was finalized and returned an error and a delay, the second
\* has the capability but its finalizer was not in the list and it was
\* skipped.
C17_Witness ==
    /\ Deleted
    /\ LoopEnded
    /\ Len(calls) = 2
    /\ calls[1].kind = "Finalize" /\ calls[1].err /\ calls[1].res.RequeueAfter > 0
    /\ components[2].finalizer
    /\ ~InSeq(calls[2].finsBefore, FinalizerName(components[2].name))
    /\ calls[2].kind = "none"
    /\ Len(errs) = 1

\* lines 209-210: the object the tolerant mode builds when Get returned
\* not-found, with the identity of the request and nothing else
BareObject == [EmptyObject EXCEPT !.name = ReqName]

\* C18: when Get fails with an error that is not not-found, in either mode
\* the cycle returns that error with an empty result, dispatches no
\* component and issues no patch; when Get returns not-found in the
\* tolerant mode the cycle goes on with a working copy that has only the
\* identity populated, dispatches every component and attempts the
\* persistence.
C18_FetchErrorAndTolerantNotFound ==
    /\ got = "error" =>
          /\ pc = "done"
          /\ ret = [valid |-> TRUE, res |-> ZeroResult, err |-> FetchError]
          /\ calls = <<>>
          /\ patches = <<>>
    /\ (got = "notfound" /\ ~abortNotFound) =>
          /\ cleanObj = BareObject
          /\ calls = <<>> => obj = BareObject
          /\ \A i \in 1..Len(calls) : calls[i].comp = i
          /\ pc = "done" =>
                /\ Len(calls) = Len(components)
                /\ patches # <<>>
                /\ patches[1].kind = "metadata"

\* C18, the first case reached: Get failed in the tolerant mode after an
\* earlier cycle had run the components.
C18_Witness ==
    /\ got = "error"
    /\ ~abortNotFound
    /\ pc = "done"
    /\ now > StoredTime

\* C18, the second case reached: a tolerant cycle on a resource the store
\* does not hold is over after two Reconcile calls and the metadata patch.
C18_WitnessNotFound ==
    /\ got = "notfound"
    /\ ~abortNotFound
    /\ pc = "done"
    /\ Len(calls) = 2
    /\ calls[2].kind = "Reconcile"
    /\ Len(patches) = 1
    /\ obj.finalizers # <<>>

\* the last condition of its type among those call i's component set
LastOfCall(i, k) ==
    \A j \in (k + 1)..Len(calls[i].sets) :
        calls[i].sets[j].Type # calls[i].sets[k].Type

\* the order of the calls and the flush between them
DispatchedInOrder ==
    /\ Len(calls) <= Len(components)
    /\ \A i \in 1..Len(calls) :
          /\ calls[i].comp = i
          /\ condObj => calls[i].pendingAfter = EmptyPending
          /\ i < Len(calls) =>
                /\ calls[i + 1].finsBefore = calls[i].finsAfter
                /\ calls[i + 1].condsBefore = calls[i].condsAfter
                /\ calls[i + 1].at >= calls[i].at
                /\ condObj => calls[i + 1].pendingBefore = EmptyPending
    /\ (pc = "dispatch" /\ calls # <<>>) =>
          /\ obj.finalizers = calls[Len(calls)].finsAfter
          /\ obj.conditions = calls[Len(calls)].condsAfter
          /\ pending = calls[Len(calls)].pendingAfter

\* C19: within one cycle the components are dispatched one at a time in
\* registration order, each at most once, and the condition buffer is
\* flushed after each of them: the next component starts on an empty buffer
\* and on a working copy that has the finalizer changes of the previous
\* dispatch and the conditions the previous component set (for a resource
\* that has a condition list).
C19_SequentialDispatchWithFlush ==
    /\ DispatchedInOrder
    /\ condObj =>
          \A i \in 1..(Len(calls) - 1) :
              \A k \in 1..Len(calls[i].sets) :
                  LastOfCall(i, k) =>
                      /\ CountType(calls[i + 1].condsBefore, calls[i].sets[k].Type) = 1
                      /\ LET c == FirstOfType(calls[i + 1].condsBefore,
                                              calls[i].sets[k].Type)
                         IN /\ c.Status = calls[i].sets[k].Status
                            /\ c.Reason = calls[i].sets[k].Reason
                            /\ c.Message = calls[i].sets[k].Message

\* C19, the part the code keeps: the order, the flush between the calls,
\* the finalizer changes, and a condition of every type the previous
\* component set.
C19_DispatchOrderAndFlush ==
    /\ DispatchedInOrder
    /\ condObj =>
          \A i \in 1..(Len(calls) - 1) :
              \A k \in 1..Len(calls[i].sets) :
                  CountType(calls[i + 1].condsBefore, calls[i].sets[k].Type) = 1

\* C19 witness: the first component set a condition of a type the list did
\* not hold and had its finalizer added; the second component started on
\* the list with that condition and that finalizer, and on an empty buffer.
C19_Witness ==
    /\ condObj
    /\ Len(calls) = 2
    /\ calls[1].sets # <<>>
    /\ CountType(calls[1].condsBefore, calls[1].sets[1].Type) = 0
    /\ CountType(calls[2].condsBefore, calls[1].sets[1].Type) = 1
    /\ calls[1].finsAfter # calls[1].finsBefore
    /\ calls[2].finsBefore = calls[1].finsAfter
    /\ calls[2].pendingBefore = EmptyPending
    /\ calls[2].sets # <<>>

(***************************************************************************)
(* Finalization in the tolerant mode: cycles on a stored resource that is  *)
(* marked for deletion and holds the finalizers of the finalizer-capable   *)
(* components; every patch the store can apply succeeds.                   *)
(***************************************************************************)
\* the finalizers of the finalizer-capable components of the list, in
\* registration order
RECURSIVE EngineFinalizers(_)
EngineFinalizers(comps) ==
    IF comps = <<>> THEN <<>>
    ELSE (IF Head(comps).finalizer THEN << FinalizerName(Head(comps).name) >> ELSE <<>>)
            \o EngineFinalizers(Tail(comps))

InitLive ==
    /\ abortNotFound = FALSE
    /\ components \in { c \in ComponentLists : EngineFinalizers(c) # <<>> }
    /\ condObj \in BOOLEAN
    /\ store = [exists |-> TRUE,
                obj |-> Stored(TRUE, EngineFinalizers(components), NoAnnotations, <<>>)]
    /\ pc = "idle"
    /\ obj = EmptyObject
    /\ cleanObj = EmptyObject
    /\ pending = EmptyPending
    /\ rcIdx = 1
    /\ finalRes = ZeroResult
    /\ errs = <<>>
    /\ ret = NoReturn
    /\ now = StoredTime
    /\ got = "none"
    /\ calls = <<>>
    /\ patches = <<>>
    /\ lastFlush = NoFlush
    /\ setLog = NoSets
    /\ flushes = 0

\* a turn of the loop whose component returns an empty result and sets no
\* condition; Finalize returns done or not, with an error or without
DispatchLive ==
    /\ Dispatch
    /\ finalRes' = ZeroResult
    /\ pending' = EmptyPending

\* the patches succeed whenever the store holds the resource
PatchMetadataLive ==
    /\ PatchMetadata
    /\ store.exists => patches'[Len(patches')].ok

PatchStatusLive ==
    /\ PatchStatus
    /\ store.exists => patches'[Len(patches')].ok

NextLive ==
    \/ Fetch
    \/ DispatchLive
    \/ PatchMetadataLive
    \/ PatchStatusLive

\* the Finalize of component i returns done=true
FinalizeDone(i) ==
    /\ DispatchLive
    /\ rcIdx = i
    /\ calls'[Len(calls')].kind = "Finalize"
    /\ calls'[Len(calls')].done

\* the cycles keep being run, one step after the other, and no component's
\* Finalize returns done=false forever
FairLive ==
    /\ WF_vars(NextLive)
    /\ SF_vars(FinalizeDone(1))
    /\ SF_vars(FinalizeDone(2))

SpecLive == InitLive /\ [][NextLive]_vars /\ FairLive

\* the stored resource holds none of the engine's component finalizers
NoEngineFinalizerStored ==
    store.exists =>
        \A i \in 1..Len(components) :
            ~ContainsFinalizer(store.obj, FinalizerName(components[i].name))

\* C20: in the tolerant mode, for a stored resource marked for deletion that
\* holds the finalizers of the finalizer-capable components, when the
\* cycles keep being run, every patch succeeds and every Finalize
\* eventually returns done=true: eventually the stored finalizer list holds
\* none of the engine's component finalizers, and no step adds a component
\* finalizer to the stored resource while it is marked for deletion.
C20_FinalizationCompletes ==
    /\ <>NoEngineFinalizerStored
    /\ [][ (store.exists /\ store'.exists
              /\ store'.obj.deletionTimestamp # ZeroTime) =>
                 NoneAdded(store.obj.finalizers, store'.obj.finalizers) ]_vars

\* C20 witness: an earlier cycle finalized the second component only; this
\* cycle finalized the first, skipped the second, and its metadata patch
\* took the resource with its last finalizer out of the store.
C20_Witness ==
    /\ ~store.exists
    /\ Deleted
    /\ pc = "patchStatus"
    /\ Len(calls) = 2
    /\ calls[1].kind = "Finalize" /\ calls[1].done
    /\ calls[2].kind = "none"
    /\ cleanObj.finalizers = << FinalizerName("a") >>
    /\ Len(components) = 2 /\ components[2].finalizer


====
